---- MODULE Spec2Model ----
(***************************************************************************)
(* A model of get.py, the JetBrains product and plugin downloader.         *)
(*                                                                         *)
(* The program is sequential.  Its parts are modelled as state machines    *)
(* that share this module's helpers:                                       *)
(*   cmp  one plugin update's parse and build-compatibility test           *)
(*        (JBPluginUpdate, get_build_tuple, is_build_between)              *)
(*   sel  the choice of a plugin update for a product build                *)
(*        (find_compatible_plugin_update)                                  *)
(*   dl   calls of download_file on a directory tree, with the URL tracker *)
(*   rec  UnknownFilesTracker: get_unknown_files and clean_unknown_files   *)
(*   run  the whole program: App.main, run after run on the same disk      *)
(*   api  JetBrainsApi: the cached queries and the URL tracker             *)
(*   pag  get_plugin_updates_all: the paging loop                          *)
(* Strings are sequences of one-character strings, so that split(), the    *)
(* validator's regular expression and int() are computed, not assumed.     *)
(* Python's None is the one-element sequence <<"None">>, which is no       *)
(* string over the alphabet.                                               *)
(***************************************************************************)
EXTENDS Integers, Sequences, FiniteSets, TLC

VARIABLES cmp, sel, dl, rec, run, api, pag

vars == <<cmp, sel, dl, rec, run, api, pag>>

othersCmp == <<sel, dl, rec, run, api, pag>>

othersSel == <<cmp, dl, rec, run, api, pag>>

othersDl == <<cmp, sel, rec, run, api, pag>>

othersRec == <<cmp, sel, dl, run, api, pag>>

othersRun == <<cmp, sel, dl, rec, api, pag>>

othersApi == <<cmp, sel, dl, rec, run, pag>>

othersPag == <<cmp, sel, dl, rec, run, api>>

None == <<"None">>

Digits == {"0", "1", "2", "3", "4", "5", "6", "7", "8", "9"}

DigitVal(c) ==
    CASE c = "0" -> 0 [] c = "1" -> 1 [] c = "2" -> 2 [] c = "3" -> 3
      [] c = "4" -> 4 [] c = "5" -> 5 [] c = "6" -> 6 [] c = "7" -> 7
      [] c = "8" -> 8 [] c = "9" -> 9

Min(a, b) == IF a <= b THEN a ELSE b

(***************************************************************************)
(* str.split('.'): the segments between the dots, empty ones included.     *)
(***************************************************************************)
RECURSIVE SplitAcc(_, _, _, _)
SplitAcc(s, i, cur, acc) ==
    IF i > Len(s) THEN Append(acc, cur)
    ELSE IF s[i] = "." THEN SplitAcc(s, i + 1, <<>>, Append(acc, cur))
    ELSE SplitAcc(s, i + 1, Append(cur, s[i]), acc)

Split(s) == SplitAcc(s, 1, <<>>, <<>>)

(***************************************************************************)
(* int(x) of a digit string, most significant digit first.                 *)
(***************************************************************************)
RECURSIVE IntAcc(_, _, _)
IntAcc(seg, i, n) ==
    IF i > Len(seg) THEN n ELSE IntAcc(seg, i + 1, 10 * n + DigitVal(seg[i]))

IntOf(seg) == IntAcc(seg, 1, 0)

IsDigits(seg) == Len(seg) > 0 /\ \A i \in 1..Len(seg) : seg[i] \in Digits

IsDigitsOrStar(seg) == IsDigits(seg) \/ seg = <<"*">>

(***************************************************************************)
(* JBPluginUpdateBuildValidator.RE.fullmatch(value) is not None.  RE has   *)
(* four alternatives: empty; digits; digits, a dot, digits or a star;      *)
(* digits, a dot, digits, a dot, digits or a star.  They are told apart by *)
(* the number of dots, as no alternative matches a dot anywhere else.      *)
(***************************************************************************)
REMatches_without_short_wildcard(value) ==
    LET segs == Split(value)
    IN  \/ value = <<>>
        \/ Len(segs) = 1 /\ IsDigits(segs[1])
        \/ Len(segs) = 2 /\ IsDigits(segs[1]) /\ IsDigits(segs[2])
        \/ Len(segs) = 3 /\ IsDigits(segs[1]) /\ IsDigits(segs[2])
                         /\ IsDigitsOrStar(segs[3])

REMatches(value) ==
    LET segs == Split(value)
    IN  \/ value = <<>>
        \/ Len(segs) = 1 /\ IsDigits(segs[1])
        \/ Len(segs) = 2 /\ IsDigits(segs[1]) /\ IsDigitsOrStar(segs[2])
        \/ Len(segs) = 3 /\ IsDigits(segs[1]) /\ IsDigits(segs[2])
                         /\ IsDigitsOrStar(segs[3])

(***************************************************************************)
(* get_build_tuple: tuple(int(x) for x in build.split('.')                 *)
(*                        if x.strip() not in ('*', ''))                   *)
(***************************************************************************)
RECURSIVE BuildTupleAcc(_, _, _)
BuildTupleAcc(segs, i, acc) ==
    IF i > Len(segs) THEN acc
    ELSE IF segs[i] \in {<<"*">>, <<>>} THEN BuildTupleAcc(segs, i + 1, acc)
    ELSE BuildTupleAcc(segs, i + 1, Append(acc, IntOf(segs[i])))

get_build_tuple(build) == BuildTupleAcc(Split(build), 1, <<>>)

(***************************************************************************)
(* is_build_between.  low is Python's tuple comparison since <= target:    *)
(* the first differing element decides, and a tuple that is a prefix of    *)
(* the other is the smaller.  high is the loop over zip(target, until).    *)
(***************************************************************************)
RECURSIVE TupleLe(_, _)
TupleLe(a, b) ==
    IF a = <<>> THEN TRUE
    ELSE IF b = <<>> THEN FALSE
    ELSE IF a[1] < b[1] THEN TRUE
    ELSE IF a[1] > b[1] THEN FALSE
    ELSE TupleLe(Tail(a), Tail(b))

RECURSIVE HighLoop(_, _, _)
HighLoop(target, until, i) ==
    IF i > Min(Len(target), Len(until)) THEN TRUE
    ELSE IF target[i] < until[i] THEN TRUE
    ELSE IF target[i] > until[i] THEN FALSE
    ELSE HighLoop(target, until, i + 1)

is_build_between_high_full(since, target, until) ==
    [low |-> TupleLe(since, target), high |-> TupleLe(target, until)]

is_build_between_low_zip(since, target, until) ==
    [low |-> HighLoop(since, target, 1), high |-> HighLoop(target, until, 1)]

is_build_between(since, target, until) ==
    [low |-> TupleLe(since, target), high |-> HighLoop(target, until, 1)]

(***************************************************************************)
(* The inputs of one compatibility test: the since and until of an update  *)
(* payload, each absent (None), well formed or malformed, and the build    *)
(* string of a product release (dotted numbers).                           *)
(***************************************************************************)
MaxBuildSegs == 3

RangeNumerals == {<<"0">>, <<"1">>, <<"1", "0">>}

BuildNumerals == {<<"0">>, <<"1">>, <<"1", "0">>}

Dot(a, b) == a \o <<".">> \o b

WellFormedBounds ==
    {<<>>} \cup RangeNumerals
      \cup {Dot(a, b) : a \in RangeNumerals, b \in RangeNumerals \cup {<<"*">>}}
      \cup {Dot(Dot(a, b), c) : a \in RangeNumerals, b \in RangeNumerals,
                                c \in RangeNumerals \cup {<<"*">>}}

MalformedBounds ==
    {<<"1", ".", ".", "0">>, <<"1", ".", "*", ".", "0">>, <<"*">>,
     <<"1", ".">>, <<"*", ".", "1">>, <<"1", ".", "0", ".", "0", ".", "0">>}

PayloadBounds == WellFormedBounds \cup MalformedBounds \cup {None}

RECURSIVE JoinDots(_, _)
JoinDots(nums, i) ==
    IF i = Len(nums) THEN nums[i] ELSE Dot(nums[i], JoinDots(nums, i + 1))

BuildStrings ==
    UNION {{JoinDots(nums, 1) : nums \in [1..n -> BuildNumerals]} :
           n \in 1..MaxBuildSegs}

(***************************************************************************)
(* cmp: a payload item is parsed into a JBPluginUpdate (the validators run *)
(* on the fields that are present), then tested against a product build.   *)
(***************************************************************************)
CmpIdle ==
    [pc |-> "idle", since |-> None, until |-> None, build |-> <<>>,
     since_t |-> <<>>, until_t |-> <<>>, target_t |-> <<>>,
     low |-> FALSE, high |-> FALSE, result |-> FALSE, exc |-> "none"]

SelIdle == [pc |-> "idle", updates |-> <<>>, build |-> <<>>, result |-> 0]

EmptyTracker ==
    [request_hostname |-> {}, response_hostname |-> {},
     request_url |-> {}, response_url |-> {}]

DlIdle ==
    [pc |-> "idle", dirs |-> {<<>>}, files |-> <<>>, hist |-> <<>>,
     url_tracker |-> EmptyTracker,
     redirects |-> <<>>, bodies |-> <<>>, sent |-> 0, streamed |-> 0,
     pre |-> [dirs |-> {<<>>}, files |-> <<>>, sent |-> 0, streamed |-> 0]]

NoData == [kind |-> "none"]

RunIdle ==
    [pc |-> "idle", runs |-> 0,
     \* the command line and the configuration file
     cache_api |-> FALSE, clean_unknown |-> FALSE,
     config |-> [products |-> <<>>, plugins |-> <<>>],
     \* the remote
     redirects |-> <<>>, bodies |-> <<>>, payloads |-> <<>>,
     \* the disk: the tree, the DiskCache directory, the two reports and
     \* the number of times this process has written url.json
     dirs |-> {<<>>}, files |-> <<>>, cache |-> <<>>,
     index_json |-> <<>>, url_json |-> EmptyTracker, url_writes |-> 0,
     \* the App object and the locals of the call in progress
     known_files |-> {}, products_index |-> <<>>, url_tracker |-> EmptyTracker,
     plugins |-> <<>>, plugins_updates |-> <<>>, plugin_files |-> <<>>,
     pi |-> 1, oi |-> 1, release |-> <<>>, os_releases |-> <<>>,
     data |-> NoData, fault |-> "none", failed |-> {}, denied |-> {},
     err |-> "none", raised_in |-> "none", exit_status |-> "none",
     \* what the last size and digest checks read, and the log of the runs
     seen |-> [archive |-> "none", hash |-> "none"],
     sent |-> 0, streamed |-> 0, hist |-> <<>>, out |-> <<>>]

ApiIdle ==
    [pc |-> "idle", runs |-> 0, cache_api |-> FALSE,
     redirects |-> <<>>, payloads |-> <<>>, cache |-> <<>>,
     url_tracker |-> EmptyTracker, data |-> NoData, fault |-> "none",
     err |-> "none", sent |-> 0, log |-> <<>>, report |-> EmptyTracker]

PagIdle ==
    [pc |-> "idle", source |-> [kind |-> "none", n |-> 0], cache_api |-> FALSE,
     redirects |-> <<>>, payloads |-> <<>>, cache |-> <<>>,
     url_tracker |-> EmptyTracker, data |-> NoData, fault |-> "none",
     err |-> "none", sent |-> 0,
     page |-> 0, updates |-> <<>>, requested |-> <<>>, sizes |-> <<>>]

RecIdle ==
    [pc |-> "idle", dirs |-> {<<>>}, files |-> <<>>, known_files |-> {},
     unknown_files |-> <<>>, i |-> 1, failed |-> {}, denied |-> {},
     seen |-> [dirs |-> {}, files |-> {}]]

CmpInit ==
    /\ pag = PagIdle
    /\ api = ApiIdle
    /\ run = RunIdle
    /\ sel = SelIdle
    /\ dl = DlIdle
    /\ rec = RecIdle
    /\ \E s \in PayloadBounds, u \in PayloadBounds, b \in BuildStrings :
          cmp = [CmpIdle EXCEPT !.pc = "payload", !.since = s, !.until = u,
                                !.build = b]

is_valid(value) == value = None \/ REMatches(value)

JBPluginUpdate ==
    /\ cmp.pc = "payload"
    /\ IF is_valid(cmp.since) /\ is_valid(cmp.until)
       THEN cmp' = [cmp EXCEPT !.pc = "update"]
       ELSE cmp' = [cmp EXCEPT !.pc = "done", !.exc = "ValidationError"]
    /\ UNCHANGED othersCmp

is_plugin_update_compatible_with ==
    /\ cmp.pc = "update"
    /\ IF cmp.since = None \/ cmp.until = None
       THEN cmp' = [cmp EXCEPT !.pc = "done", !.exc = "AttributeError"]
       ELSE LET since == get_build_tuple(cmp.since)
                until == get_build_tuple(cmp.until)
                target == get_build_tuple(cmp.build)
                r == is_build_between(since, target, until)
            IN  cmp' = [cmp EXCEPT !.pc = "done", !.since_t = since,
                                   !.until_t = until, !.target_t = target,
                                   !.low = r.low, !.high = r.high,
                                   !.result = r.low /\ r.high]
    /\ UNCHANGED othersCmp

NextCompat == JBPluginUpdate \/ is_plugin_update_compatible_with

SpecCompat == CmpInit /\ [][NextCompat]_vars

(***************************************************************************)
(* Claims on the compatibility test.                                       *)
(***************************************************************************)
CmpCompared == cmp.pc = "done" /\ cmp.exc = "none"

SharedDiffs(a, b) == {i \in 1..Min(Len(a), Len(b)) : a[i] # b[i]}

FirstOf(d) == CHOOSE i \in d : \A j \in d : i <= j

Str_1_star == <<"1", ".", "*">>

Str_1_10_star == <<"1", ".", "1", "0", ".", "*">>

Str_10_0 == <<"1", "0", ".", "0">>

Str_1_10_0 == <<"1", ".", "1", "0", ".", "0">>

\* C7: the upper bound of is_build_between is decided by the first index at
\* which build and until differ (build smaller: satisfied, build larger:
\* failed) and is satisfied when they agree on every compared index or until
\* is empty; a build longer than until that agrees with it on until's length
\* is within the bound (build 1.10.0 with until 1.10.* is, build 10.0 with
\* until 1.* is not).
C7_UpperBoundFirstDifference ==
    CmpCompared =>
        LET t == cmp.target_t
            u == cmp.until_t
            d == SharedDiffs(t, u)
        IN  /\ cmp.high = (d = {} \/ t[FirstOf(d)] < u[FirstOf(d)])
            /\ u = <<>> => cmp.high
            /\ (cmp.until = Str_1_10_star /\ cmp.build = Str_1_10_0) => cmp.high
            /\ (cmp.until = Str_1_star /\ cmp.build = Str_10_0) => ~cmp.high

C7_LongerBuildWithinBound ==
    /\ CmpCompared
    /\ cmp.until = Str_1_10_star
    /\ cmp.until_t = <<1, 10>>
    /\ cmp.target_t = <<1, 10, 0>>
    /\ cmp.high

\* C8 as claimed: the lower bound is satisfied iff since is empty or build >=
\* since on the shared-length prefix of the two tuples (so build (1) with
\* since (1,0) would satisfy it).
C8_LowerBoundSharedPrefix ==
    CmpCompared =>
        LET t == cmp.target_t
            s == cmp.since_t
            d == SharedDiffs(s, t)
        IN  cmp.low = (s = <<>> \/ d = {} \/ s[FirstOf(d)] < t[FirstOf(d)])

\* C8 amended: the lower bound is satisfied iff since <= build in the standard
\* lexicographic order of tuples: the first differing index decides, and when
\* the tuples agree on their shared length the bound holds iff since is not
\* longer than build (an empty since always; build (1) with since (1,0) not).
C8_LowerBoundLexicographic ==
    CmpCompared =>
        LET t == cmp.target_t
            s == cmp.since_t
            d == SharedDiffs(s, t)
        IN  cmp.low = IF d = {} THEN Len(s) <= Len(t)
                      ELSE s[FirstOf(d)] < t[FirstOf(d)]

C8_ShorterBuildBelowSince ==
    /\ CmpCompared
    /\ cmp.target_t = <<1>>
    /\ cmp.since_t = <<1, 0>>
    /\ ~cmp.low

\* C9: for an update whose since and/or until is absent (None) or empty, the
\* compatibility test raises no error and the absent side is unbounded: the
\* result is true iff the bound that is present is satisfied.
C9_AbsentBoundIsUnbounded ==
    (/\ cmp.pc = "done"
     /\ cmp.exc # "ValidationError"
     /\ (cmp.since \in {None, <<>>} \/ cmp.until \in {None, <<>>})) =>
        /\ cmp.exc = "none"
        /\ cmp.result =
              (/\ cmp.since \in {None, <<>>} \/ cmp.low
               /\ cmp.until \in {None, <<>>} \/ cmp.high)

\* the strings of the grammar as the specification lists it: empty, N, N.N,
\* N.N.* and N.N.N
StatedGrammar ==
    WellFormedBounds \ {Dot(a, <<"*">>) : a \in RangeNumerals}

\* the numeric segments of a string, a last segment that is a star or empty
\* left out
NumericSegments(value) ==
    LET segs == Split(value)
        n == IF segs[Len(segs)] \in {<<"*">>, <<>>} THEN Len(segs) - 1 ELSE Len(segs)
    IN  [k \in 1..n |-> IntOf(segs[k])]

CmpParsed == cmp.pc \in {"update", "done"}

CmpTuplesAsWritten ==
    CmpCompared =>
        /\ cmp.since_t = NumericSegments(cmp.since)
        /\ cmp.until_t = NumericSegments(cmp.until)

\* C18 (as stated): a since or until string is accepted iff it is empty, N,
\* N.N, N.N.* or N.N.N; any other string is rejected when the update is parsed,
\* not when it is compared; the tuple of an accepted string is the sequence of
\* its numeric segments, a trailing star or empty segment dropped.
C18_AcceptedIffStatedGrammar ==
    /\ CmpParsed =>
          ((cmp.exc # "ValidationError") <=>
              /\ cmp.since \in StatedGrammar \cup {None}
              /\ cmp.until \in StatedGrammar \cup {None})
    /\ cmp.exc = "ValidationError" => cmp.since_t = <<>> /\ cmp.until_t = <<>>
    /\ CmpTuplesAsWritten

\* C18 (amended): the same with N.* accepted as well: empty, N, N.N, N.*,
\* N.N.* or N.N.N.
C18_AcceptedIffGrammarWithShortWildcard ==
    /\ CmpParsed =>
          ((cmp.exc # "ValidationError") <=>
              /\ cmp.since \in WellFormedBounds \cup {None}
              /\ cmp.until \in WellFormedBounds \cup {None})
    /\ cmp.exc = "ValidationError" => cmp.since_t = <<>> /\ cmp.until_t = <<>>
    /\ CmpTuplesAsWritten

\* an update with until 1.* has been parsed and compared, its tuple being (1)
C18_ShortWildcardCompared ==
    /\ CmpCompared
    /\ cmp.until = Str_1_star
    /\ cmp.until_t = <<1>>
    /\ cmp.since = <<"1", ".", "0", ".", "*">>
    /\ cmp.since_t = <<1, 0>>

(***************************************************************************)
(* sel: find_compatible_plugin_update over the update list of one plugin   *)
(* (the concatenation of the pages, in the order the API returned them).   *)
(* An update is [id, cdate, since, until]; its id is its place in the      *)
(* list.  result is the index of the update returned, 0 for None.          *)
(***************************************************************************)
MaxUpdates == 3

MaxCdate == 3

SelUntils == {<<"1", ".", "*">>, <<"1", "0", ".", "*">>}

SelBuilds == {<<"1", ".", "0">>, <<"1", "0", ".", "0">>}

SelUpdateLists ==
    UNION {[1..n -> [cdate : 1..MaxCdate, since : {<<>>}, until : SelUntils]] :
           n \in 0..MaxUpdates}

SelInit ==
    /\ pag = PagIdle
    /\ api = ApiIdle
    /\ run = RunIdle
    /\ cmp = CmpIdle
    /\ dl = DlIdle
    /\ rec = RecIdle
    /\ \E l \in SelUpdateLists, b \in SelBuilds :
          sel = [SelIdle EXCEPT !.pc = "call", !.updates = l, !.build = b]

IsCompatible(update, product_tuple) ==
    LET r == is_build_between(get_build_tuple(update.since), product_tuple,
                              get_build_tuple(update.until))
    IN  r.low /\ r.high

RECURSIVE FirstCompatible(_, _, _)
FirstCompatible(updates, product_tuple, i) ==
    IF i > Len(updates) THEN 0
    ELSE IF IsCompatible(updates[i], product_tuple) THEN i
    ELSE FirstCompatible(updates, product_tuple, i + 1)

find_compatible_plugin_update ==
    /\ sel.pc = "call"
    /\ sel' = [sel EXCEPT !.pc = "done",
                          !.result = FirstCompatible(sel.updates,
                                         get_build_tuple(sel.build), 1)]
    /\ UNCHANGED othersSel

NextSelect == find_compatible_plugin_update

SpecSelect == SelInit /\ [][NextSelect]_vars

(***************************************************************************)
(* Claims on the choice of a plugin update.                                *)
(***************************************************************************)
SelCompatible ==
    {i \in 1..Len(sel.updates) :
        IsCompatible(sel.updates[i], get_build_tuple(sel.build))}

\* C1: find_compatible_plugin_update returns the compatible update with the
\* newest creation timestamp, whatever the order of the list, the earliest in
\* the list among those of equal timestamp, and None only when no update is
\* compatible.
C1_NewestCompatibleSelected ==
    sel.pc = "done" =>
        IF SelCompatible = {} THEN sel.result = 0
        ELSE /\ sel.result \in SelCompatible
             /\ \A j \in SelCompatible :
                   \/ sel.updates[j].cdate < sel.updates[sel.result].cdate
                   \/ /\ sel.updates[j].cdate = sel.updates[sel.result].cdate
                      /\ sel.result <= j

(***************************************************************************)
(* UrlTracker: the four sets and the track_* methods.  A URL is a record   *)
(* [host, path]; urlparse(url).hostname is its host.                       *)
(***************************************************************************)
track_request_hostname(tr, url) ==
    IF url.host \notin tr.request_hostname
    THEN [tr EXCEPT !.request_hostname = @ \cup {url.host}]
    ELSE tr

track_response_hostname(tr, url) ==
    IF url.host \notin tr.request_hostname
    THEN [tr EXCEPT !.response_hostname = @ \cup {url.host}]
    ELSE tr

track_request_url(tr, url) ==
    LET t == track_request_hostname(tr, url)
    IN  IF url \notin t.request_url
        THEN [t EXCEPT !.request_url = @ \cup {url}]
        ELSE t

track_response_url(tr, url) ==
    LET t == track_response_hostname(tr, url)
    IN  IF url \notin t.request_url
        THEN [t EXCEPT !.response_url = @ \cup {url}]
        ELSE t

(***************************************************************************)
(* The directory tree: dirs is the set of directories (paths are sequences *)
(* of names, <<>> the working directory), files maps each plain file's     *)
(* path to its content.                                                    *)
(***************************************************************************)
Prefixes(p) == {SubSeq(p, 1, k) : k \in 0..Len(p)}

mkdir_parents(dirs, directory) == dirs \cup Prefixes(directory)

ExistsNever(dirs, files, target) == FALSE

Exists(dirs, files, target) == target \in dirs \/ target \in DOMAIN files

WriteFile(files, target, content) ==
    [p \in DOMAIN files \cup {target} |->
        IF p = target THEN content ELSE files[p]]

UnlinkNothing(files, target) == files

Unlink(files, target) == [p \in DOMAIN files \ {target} |-> files[p]]

basename(url) == IF url.path = <<>> THEN "" ELSE url.path[Len(url.path)]

(***************************************************************************)
(* The remote: d.redirects maps a URL that is answered through redirects   *)
(* to the final URL (response.request.url), d.bodies a final URL to the    *)
(* body served.                                                            *)
(***************************************************************************)
Effective(d, url) == IF url \in DOMAIN d.redirects THEN d.redirects[url] ELSE url

Body(d, url) == d.bodies[url]

(***************************************************************************)
(* The remote of the download calls: UrlPlain answers itself, UrlMoved     *)
(* answers through a redirect to UrlCdn, and the final URL names the file. *)
(***************************************************************************)
MaxCalls == 2

UrlPlain == [host |-> "plugins", path |-> <<"plugin", "f1">>]

UrlMoved == [host |-> "download", path |-> <<"get">>]

UrlCdn == [host |-> "cdn", path |-> <<"files", "f2">>]

DlUrls == {UrlPlain, UrlMoved, UrlCdn}

DlRedirects == UrlMoved :> UrlCdn

DlBodies == UrlPlain :> "body1" @@ UrlCdn :> "body2"

DlDirectories == {<<"d">>, <<"d", "e">>}

DlFaults == {"none", "mkdir", "send", "open", "copy"}

DlTargets ==
    {d \o <<basename(Effective([DlIdle EXCEPT !.redirects = DlRedirects], u))>> :
        d \in DlDirectories, u \in DlUrls}

DlInit ==
    /\ pag = PagIdle
    /\ api = ApiIdle
    /\ run = RunIdle
    /\ cmp = CmpIdle
    /\ sel = SelIdle
    /\ rec = RecIdle
    /\ \E ds \in {{<<>>}} \cup {Prefixes(d) : d \in DlDirectories} :
       \E old \in SUBSET {t \in DlTargets : SubSeq(t, 1, Len(t) - 1) \in ds} :
          dl = [DlIdle EXCEPT !.pc = "ready", !.dirs = ds,
                              !.files = [t \in old |-> "old"],
                              !.redirects = DlRedirects, !.bodies = DlBodies]

(***************************************************************************)
(* download_file(url, directory), with the step at which it fails, if any: *)
(* mkdir (outside the try: the OSError propagates as it is), send, open,   *)
(* copy (inside the try: the target is unlinked if it is known, and an     *)
(* AppError is raised).                                                    *)
(***************************************************************************)
download_file(d, url, directory, fault) ==
    LET dirs1 == mkdir_parents(d.dirs, directory)
        tr1 == track_request_url(d.url_tracker, url)
        effective == Effective(d, url)
        tr2 == track_response_url(tr1, effective)
        target == directory \o <<basename(effective)>>
        call == [url |-> url, directory |-> directory]
    IN  IF fault = "mkdir"
        THEN [d EXCEPT !.hist = Append(@, call @@ [outcome |-> "OSError",
                                                   ret |-> None, skipped |-> FALSE])]
        ELSE IF fault = "send"
        THEN [d EXCEPT !.dirs = dirs1, !.url_tracker = tr1, !.sent = @ + 1,
                       !.hist = Append(@, call @@ [outcome |-> "AppError",
                                                   ret |-> None, skipped |-> FALSE])]
        ELSE IF Exists(dirs1, d.files, target)
        THEN [d EXCEPT !.dirs = dirs1, !.url_tracker = tr2, !.sent = @ + 1,
                       !.hist = Append(@, call @@ [outcome |-> "returned",
                                                   ret |-> target, skipped |-> TRUE])]
        ELSE IF fault = "open"
        THEN [d EXCEPT !.dirs = dirs1, !.url_tracker = tr2, !.sent = @ + 1,
                       !.files = Unlink(@, target),
                       !.hist = Append(@, call @@ [outcome |-> "AppError",
                                                   ret |-> None, skipped |-> FALSE])]
        ELSE IF fault = "copy"
        THEN [d EXCEPT !.dirs = dirs1, !.url_tracker = tr2, !.sent = @ + 1,
                       !.streamed = @ + 1,
                       !.files = Unlink(WriteFile(@, target, "partial"), target),
                       !.hist = Append(@, call @@ [outcome |-> "AppError",
                                                   ret |-> None, skipped |-> FALSE])]
        ELSE [d EXCEPT !.dirs = dirs1, !.url_tracker = tr2, !.sent = @ + 1,
                       !.streamed = @ + 1,
                       !.files = WriteFile(@, target, Body(d, effective)),
                       !.hist = Append(@, call @@ [outcome |-> "returned",
                                                   ret |-> target, skipped |-> FALSE])]

DownloadFile ==
    /\ dl.pc = "ready"
    /\ Len(dl.hist) < MaxCalls
    /\ \E url \in DlUrls, directory \in DlDirectories, fault \in DlFaults :
          LET snap == [dirs |-> dl.dirs, files |-> dl.files, sent |-> dl.sent,
                       streamed |-> dl.streamed]
          IN  dl' = [download_file(dl, url, directory, fault) EXCEPT !.pre = snap]
    /\ UNCHANGED othersDl

NextDownload == DownloadFile

SpecDownload == DlInit /\ [][NextDownload]_vars

(***************************************************************************)
(* Claims on download_file.                                                *)
(***************************************************************************)
DlLast == dl.hist[Len(dl.hist)]

DlRepeated ==
    {i \in 1..(Len(dl.hist) - 1) :
        /\ dl.hist[i].url = DlLast.url
        /\ dl.hist[i].directory = DlLast.directory
        /\ dl.hist[i].outcome = "returned"
        /\ DlLast.outcome = "returned"}

\* C2 as claimed: a second call of download_file with the same URL and
\* directory issues no request to the remote, and returns the existing path
\* with the file's content unchanged.
C2_SecondCallIssuesNoRequest ==
    \A i \in DlRepeated :
        /\ DlLast.skipped
        /\ dl.sent = dl.pre.sent
        /\ DlLast.ret = dl.hist[i].ret
        /\ dl.files = dl.pre.files

\* C2 amended: a second call of download_file with the same URL and directory
\* sends its request again (the file's name is taken from the response's
\* final URL) but, finding the file present, transfers no body: the body is
\* transferred once, and the call returns the existing path with every
\* file's content unchanged.
C2_SecondCallTransfersNoBody ==
    \A i \in DlRepeated :
        /\ DlLast.skipped
        /\ dl.sent = dl.pre.sent + 1
        /\ dl.streamed = dl.pre.streamed
        /\ DlLast.ret = dl.hist[i].ret
        /\ dl.files = dl.pre.files
        /\ DlLast.ret \in DOMAIN dl.files

C2_DownloadedThenSkipped ==
    /\ Len(dl.hist) = 2
    /\ DlRepeated = {1}
    /\ DlLast.url = UrlMoved
    /\ ~dl.hist[1].skipped
    /\ DlLast.skipped
    /\ dl.streamed = 1
    /\ dl.files[DlLast.ret] = "body2"

DlFailed == Len(dl.hist) > 0 /\ DlLast.outcome # "returned"

\* C3 as claimed: when download_file fails, the directory tree is exactly as
\* it was before the call: no file and no directory created by the call
\* survives, and no file that existed before is removed.
C3_FailureLeavesTreeUntouched ==
    DlFailed => dl.files = dl.pre.files /\ dl.dirs = dl.pre.dirs

\* C3 amended: when download_file fails at any step, the error propagates
\* with the files of the tree exactly as they were before the call (a
\* partially written target is deleted, no file is added, removed or
\* changed); the directories that the call's mkdir(parents=True) created,
\* the target directory and its missing ancestors, survive the failure.
C3_FailureLeavesFilesUntouched ==
    DlFailed =>
        /\ dl.files = dl.pre.files
        /\ dl.pre.dirs \subseteq dl.dirs
        /\ dl.dirs \ dl.pre.dirs \subseteq Prefixes(DlLast.directory)
        /\ DlLast.outcome = "AppError" =>
              dl.dirs = dl.pre.dirs \cup Prefixes(DlLast.directory)

C3_PartialFilePurged ==
    /\ DlFailed
    /\ DlLast.outcome = "AppError"
    /\ dl.streamed = dl.pre.streamed + 1
    /\ dl.dirs # dl.pre.dirs
    /\ dl.files = dl.pre.files

\* C11: whatever the order in which a hostname or a URL is seen as a redirect
\* target and as a request, response_hostname holds no requested hostname
\* and response_url holds no requested URL.
C11_ResponseOnlySetsDisjoint ==
    /\ dl.url_tracker.response_hostname \cap dl.url_tracker.request_hostname = {}
    /\ dl.url_tracker.response_url \cap dl.url_tracker.request_url = {}

(***************************************************************************)
(* UnknownFilesTracker.  A name is a string; NameOrder lists the names of  *)
(* the model in the order Python compares them, character by character.    *)
(* Paths compare as their sequences of parts do (pathlib), part by part,   *)
(* a path that is a prefix of another being the smaller.                   *)
(***************************************************************************)
NameOrder ==
    <<"A", "B", "C", "D", "artefacts", "dest", "ide.tar.gz", "ide.tar.gz.sha256",
      "index.json", "linux", "old.zip", "plugin.zip", "plugins", "products",
      "url.json", "windows">>

NameRank(n) == CHOOSE k \in 1..Len(NameOrder) : NameOrder[k] = n

RECURSIVE PathLt(_, _)
PathLt(p, q) ==
    IF q = <<>> THEN FALSE
    ELSE IF p = <<>> THEN TRUE
    ELSE IF NameRank(p[1]) < NameRank(q[1]) THEN TRUE
    ELSE IF NameRank(p[1]) > NameRank(q[1]) THEN FALSE
    ELSE PathLt(Tail(p), Tail(q))

\* the sort key (not entry.is_dir(), entry): False sorts before True
KeyLt(dirs, p, q) ==
    \/ p \in dirs /\ q \notin dirs
    \/ (p \in dirs <=> q \in dirs) /\ PathLt(p, q)

RECURSIVE SortedReverse(_, _)
SortedReverse(dirs, entries) ==
    IF entries = {} THEN <<>>
    ELSE LET top == CHOOSE p \in entries :
                        \A q \in entries \ {p} : KeyLt(dirs, q, p)
         IN  <<top>> \o SortedReverse(dirs, entries \ {top})

IsUnder(destination, p) ==
    Len(p) > Len(destination) /\ SubSeq(p, 1, Len(destination)) = destination

\* destination.rglob('*'): every entry below destination
rglob(dirs, files, destination) ==
    {p \in dirs \cup DOMAIN files : IsUnder(destination, p)}

RECURSIVE Reversed(_)
Reversed(l) == IF l = <<>> THEN <<>> ELSE Append(Reversed(Tail(l)), Head(l))

get_unknown_files_ascending(dirs, files, destination, known_files) ==
    Reversed(SortedReverse(dirs, rglob(dirs, files, destination) \ known_files))

get_unknown_files(dirs, files, destination, known_files) ==
    SortedReverse(dirs, rglob(dirs, files, destination) \ known_files)

Parent(p) == SubSeq(p, 1, Len(p) - 1)

IsEmptyDir(dirs, files, entry) ==
    \A p \in dirs \cup DOMAIN files : p = <<>> \/ Parent(p) # entry

(***************************************************************************)
(* rec: the tree below the destination is populated (by earlier runs or by *)
(* anyone), the run registers what it produced in known_files, a directory *)
(* before what it holds, then the unknown entries are listed and removed   *)
(* one by one.                                                             *)
(***************************************************************************)
MaxEntries == 4

MaxDepth == 2

RecNames == {"A", "B", "C", "D"}

RecInit ==
    /\ pag = PagIdle
    /\ api = ApiIdle
    /\ run = RunIdle
    /\ cmp = CmpIdle
    /\ sel = SelIdle
    /\ dl = DlIdle
    /\ rec = [RecIdle EXCEPT !.pc = "populate"]

RecCreate ==
    /\ rec.pc = "populate"
    /\ Cardinality(rec.dirs \cup DOMAIN rec.files) <= MaxEntries
    /\ \E parent \in rec.dirs, n \in RecNames, is_dir \in BOOLEAN, known \in BOOLEAN :
          LET p == Append(parent, n)
          IN  /\ Len(p) <= MaxDepth
              /\ ~Exists(rec.dirs, rec.files, p)
              /\ known => parent = <<>> \/ parent \in rec.known_files
              /\ rec' = [rec EXCEPT
                           !.dirs = IF is_dir THEN @ \cup {p} ELSE @,
                           !.files = IF is_dir THEN @ ELSE WriteFile(@, p, "data"),
                           !.known_files = IF known THEN @ \cup {p} ELSE @]
    /\ UNCHANGED othersRec

\* denied: what the system will refuse to remove (PermissionError): nothing,
\* or the first entry of the list
GetUnknownFiles ==
    /\ rec.pc = "populate"
    /\ LET unknown_files == get_unknown_files(rec.dirs, rec.files, <<>>,
                                              rec.known_files)
       IN  \E denied \in {{}} \cup {{unknown_files[k]} : k \in 1..Min(1, Len(unknown_files))} :
              rec' = [rec EXCEPT
                        !.pc = "clean", !.denied = denied,
                        !.seen = [dirs |-> rec.dirs, files |-> DOMAIN rec.files],
                        !.unknown_files = unknown_files]
    /\ UNCHANGED othersRec

clean_unknown_file_forgets(r, entry) == r

\* one iteration of the loop of clean_unknown_files: clean_unknown_file(entry),
\* whose OSError (rmdir of a directory that is not empty, removal refused) is
\* caught and logged: r.failed is the set of the entries so logged
clean_unknown_file(r, entry) ==
    IF entry \in r.denied
    THEN [r EXCEPT !.failed = @ \cup {entry}]
    ELSE IF entry \in r.dirs
    THEN IF IsEmptyDir(r.dirs, r.files, entry)
         THEN [r EXCEPT !.dirs = @ \ {entry}]
         ELSE [r EXCEPT !.failed = @ \cup {entry}]
    ELSE [r EXCEPT !.files = Unlink(@, entry)]

CleanUnknownFile ==
    /\ rec.pc = "clean"
    /\ rec.i <= Len(rec.unknown_files)
    /\ rec' = [clean_unknown_file(rec, rec.unknown_files[rec.i]) EXCEPT !.i = rec.i + 1]
    /\ UNCHANGED othersRec

CleanDone ==
    /\ rec.pc = "clean"
    /\ rec.i > Len(rec.unknown_files)
    /\ rec' = [rec EXCEPT !.pc = "done"]
    /\ UNCHANGED othersRec

NextReconcile == RecCreate \/ GetUnknownFiles \/ CleanUnknownFile \/ CleanDone

SpecReconcile == RecInit /\ [][NextReconcile]_vars

(***************************************************************************)
(* Claims on the reconciler.                                               *)
(***************************************************************************)
RecListed == {rec.unknown_files[k] : k \in 1..Len(rec.unknown_files)}

RecSeen == (rec.seen.dirs \cup rec.seen.files) \ {<<>>}

IsAncestor(p, q) == Len(p) < Len(q) /\ SubSeq(q, 1, Len(p)) = p

\* C10: get_unknown_files returns exactly the entries under the root that are
\* not in known_files, every plain file before every directory and every
\* listed directory after all of its listed descendants; clean_unknown_files
\* on that list then removes every listed entry, no rmdir failing on a
\* directory that is not empty, and removes nothing else, as long as the
\* system refuses no removal.  For known_files {A, B} and the tree
\* {A, B, C, D/} the list is [C, D].
C10_UnknownListedInRemovableOrder ==
    /\ rec.pc \in {"clean", "done"} =>
          LET l == rec.unknown_files
          IN  /\ RecListed = RecSeen \ rec.known_files
              /\ Cardinality(RecListed) = Len(l)
              /\ \A a \in 1..Len(l), b \in 1..Len(l) :
                    /\ (l[a] \in rec.seen.files /\ l[b] \in rec.seen.dirs) => a < b
                    /\ IsAncestor(l[b], l[a]) => a < b
              /\ (/\ rec.known_files = {<<"A">>, <<"B">>}
                  /\ rec.seen.files = {<<"A">>, <<"B">>, <<"C">>}
                  /\ rec.seen.dirs = {<<>>, <<"D">>})
                     => l = << <<"C">>, <<"D">> >>
    /\ (rec.pc = "done" /\ rec.denied = {}) =>
          /\ rec.failed = {}
          /\ rec.dirs = rec.seen.dirs \ RecListed
          /\ DOMAIN rec.files = rec.seen.files \ RecListed

C10_FileThenDirectoryRemoved ==
    /\ rec.pc = "done"
    /\ rec.denied = {}
    /\ rec.known_files = {<<"A">>, <<"B">>}
    /\ rec.unknown_files = << <<"C">>, <<"D">> >>
    /\ DOMAIN rec.files = {<<"A">>, <<"B">>}
    /\ rec.dirs = {<<>>}

(***************************************************************************)
(* run: the URLs of the API, the cache and the JSON queries.  The query    *)
(* parameters of a URL are folded into its path.  A payload is tagged with *)
(* its JSON type: [kind |-> "list", items |-> ...] or [kind |-> "dict"].   *)
(***************************************************************************)
DATA_URL == "data.services.jetbrains.com"

PLUGIN_URL == "plugins.jetbrains.com"

ProductsUrl(code) == [host |-> DATA_URL, path |-> <<"products", code>>]

PluginUrl(pid) == [host |-> PLUGIN_URL, path |-> <<"api", "plugins", pid>>]

UpdatesUrl(pid, page) ==
    [host |-> PLUGIN_URL, path |-> <<"api", "plugins", pid, "updates", page>>]

PluginDownloadUrl(update_id) ==
    [host |-> PLUGIN_URL, path |-> <<"plugin", "download", update_id>>]

\* Cache.get finds the key: never with NoCache, with DiskCache when the file is there
cache_has(d, key) == d.cache_api /\ key \in DOMAIN d.cache

cache_put_discards(d, key, value) == d.cache

\* Cache.put: NoCache drops the value, DiskCache writes it
cache_put(d, key, value) ==
    IF d.cache_api THEN (key :> value) @@ d.cache ELSE d.cache

\* d.fault = "send": the request that reaches the network fails (session.send
\* raises, and do_cached_query does not catch it); d.fault = "json": the
\* answer is not JSON and response.json() raises
do_cached_query(d, url) ==
    LET tr == track_request_url(d.url_tracker, url)
    IN  IF cache_has(d, url)
        THEN [d EXCEPT !.url_tracker = tr, !.data = d.cache[url]]
        ELSE IF d.fault = "send"
        THEN [d EXCEPT !.url_tracker = tr, !.sent = @ + 1,
                       !.err = "ConnectionError"]
        ELSE IF d.fault = "json"
        THEN [d EXCEPT !.url_tracker = track_response_url(tr, Effective(d, url)),
                       !.sent = @ + 1, !.err = "JSONDecodeError"]
        ELSE [d EXCEPT !.url_tracker = track_response_url(tr, Effective(d, url)),
                       !.sent = @ + 1,
                       !.data = d.payloads[url],
                       !.cache = cache_put(d, url, d.payloads[url])]

Raise(d, kind) == [d EXCEPT !.err = kind]

get_product_forgets_rejected(d, product_id) ==
    LET q == do_cached_query(d, ProductsUrl(product_id))
    IN  IF q.err # "none" THEN q
        ELSE IF q.data.kind # "list" \/ Len(q.data.items) # 1
        THEN Raise([q EXCEPT !.cache = d.cache], "AppError")
        ELSE q

get_product(d, product_id) ==
    LET q == do_cached_query(d, ProductsUrl(product_id))
    IN  IF q.err # "none" THEN q
        ELSE IF q.data.kind # "list" \/ Len(q.data.items) # 1
        THEN Raise(q, "AppError")
        ELSE q

get_plugin(d, plugin_id) ==
    LET q == do_cached_query(d, PluginUrl(plugin_id))
    IN  IF q.err # "none" THEN q
        ELSE IF q.data.kind # "dict" THEN Raise(q, "AppError")
        ELSE [q EXCEPT !.plugins = (plugin_id :> q.data) @@ @]

\* get_plugin_updates_all: page 0 is short of page_size (100) in every remote
\* of this model, so it is the only page requested
get_plugin_updates_all(d, plugin_id) ==
    LET q == do_cached_query(d, UpdatesUrl(plugin_id, "0"))
    IN  IF q.err # "none" THEN q
        ELSE IF q.data.kind # "list" THEN Raise(q, "AppError")
        ELSE IF \E k \in 1..Len(q.data.items) :
                   ~(is_valid(q.data.items[k].since) /\ is_valid(q.data.items[k].until))
        THEN Raise(q, "ValidationError")
        ELSE [q EXCEPT !.plugins_updates = (plugin_id :> q.data.items) @@ @]

RECURSIVE GetPlugins(_, _)
GetPlugins(d, k) ==
    IF d.err # "none" \/ k > Len(d.config.plugins) THEN d
    ELSE GetPlugins(get_plugin(d, d.config.plugins[k]), k + 1)

RECURSIVE GetUpdates(_, _)
GetUpdates(d, k) ==
    IF d.err # "none" \/ k > Len(d.config.plugins) THEN d
    ELSE GetUpdates(get_plugin_updates_all(d, d.config.plugins[k]), k + 1)

load_configured_plugins_information(d) == GetUpdates(GetPlugins(d, 1), 1)

(***************************************************************************)
(* run: the Store, the digests and the download of one product.  A path is *)
(* the sequence of its parts; relative_posix drops the destination's.      *)
(***************************************************************************)
Destination == <<"dest">>

artefacts_dir == Destination \o <<"artefacts">>

products_dir == artefacts_dir \o <<"products">>

plugins_dir == artefacts_dir \o <<"plugins">>

metadata_dir == artefacts_dir

relative_posix(path) == SubSeq(path, Len(Destination) + 1, Len(path))

\* file.stat().st_size, hashlib.file_digest(f, ...).hexdigest() and the first
\* token of the hash file, of the contents of this model
SizeOf(content) == IF content = "short" THEN 1 ELSE 2

get_file_digest(content) ==
    CASE content = "good" -> "digest-good"
      [] content = "corrupt" -> "digest-corrupt"
      [] OTHER -> "digest-short"

\* the first token of the hash file; an empty file ("sum-empty") has none and
\* f.read().split()[0] raises IndexError, which is_digest_valid lets through
get_hash_file_digest(content) ==
    IF content = "sum-good" THEN "digest-good" ELSE "digest-other"

is_digest_valid(files, target_file, hash_file) ==
    get_file_digest(files[target_file]) = get_hash_file_digest(files[hash_file])

get_product_release_last_match(product, version) ==
    IF version = None
    THEN IF product.releases = <<>> THEN <<>> ELSE <<product.releases[1]>>
    ELSE LET m == {k \in 1..Len(product.releases) :
                       product.releases[k].version = version}
         IN  IF m = {} THEN <<>>
             ELSE <<product.releases[CHOOSE k \in m : \A j \in m : k >= j]>>

\* JBProduct.get_release / get_latest_release: <<>> is None
get_product_release(product, version) ==
    IF version = None
    THEN IF product.releases = <<>> THEN <<>> ELSE <<product.releases[1]>>
    ELSE LET m == {k \in 1..Len(product.releases) :
                       product.releases[k].version = version}
         IN  IF m = {} THEN <<>>
             ELSE <<product.releases[CHOOSE k \in m : \A j \in m : k <= j]>>

download_product(d, pc) ==
    LET q == get_product(d, pc.id)
    IN  IF q.err # "none" THEN q
        ELSE LET release == get_product_release(q.data.items[1], pc.version)
             IN  IF release = <<>> THEN Raise(q, "AppError")
                 ELSE [q EXCEPT !.release = release[1], !.os_releases = <<>>,
                                !.oi = 1]

DownloadFailed(d) == d.hist[Len(d.hist)].outcome # "returned"

DownloadedPath(d) == d.hist[Len(d.hist)].ret

download_product_release_os_archive(d, link, os_dir, size, fault) ==
    LET a == download_file(d, link, os_dir, fault)
        file == DownloadedPath(a)
    IN  IF DownloadFailed(a) THEN Raise(a, "AppError")
        ELSE IF SizeOf(a.files[file]) # size
        THEN Raise([a EXCEPT !.seen.archive = a.files[file],
                             !.files = Unlink(@, file)], "AppError")
        ELSE [a EXCEPT !.seen.archive = a.files[file],
                       !.known_files = @ \cup {file}]

download_product_release_os_hash_keeps(d, link, os_dir, archive_file, fault) ==
    LET h == download_file(d, link, os_dir, fault)
        file == DownloadedPath(h)
    IN  IF DownloadFailed(h) THEN Raise(h, "AppError")
        ELSE IF h.files[file] = "sum-empty" THEN Raise(h, "IndexError")
        ELSE IF ~is_digest_valid(h.files, archive_file, file)
        THEN Raise([h EXCEPT !.seen.hash = h.files[file]], "AppError")
        ELSE [h EXCEPT !.seen.hash = h.files[file],
                       !.known_files = @ \cup {file}]

download_product_release_os_hash(d, link, os_dir, archive_file, fault) ==
    LET h == download_file(d, link, os_dir, fault)
        file == DownloadedPath(h)
    IN  IF DownloadFailed(h) THEN Raise(h, "AppError")
        ELSE IF h.files[file] = "sum-empty" THEN Raise(h, "IndexError")
        ELSE IF ~is_digest_valid(h.files, archive_file, file)
        THEN Raise([h EXCEPT !.seen.hash = h.files[file],
                             !.files = Unlink(@, archive_file)], "AppError")
        ELSE [h EXCEPT !.seen.hash = h.files[file],
                       !.known_files = @ \cup {file}]

download_product_release_os(d, info, id_os, fault_archive, fault_hash) ==
    LET os_dir == products_dir \o <<id_os>>
        d0 == [d EXCEPT !.known_files = @ \cup {os_dir},
                        !.seen = [archive |-> "none", hash |-> "none"]]
        a == download_product_release_os_archive(d0, info.link, os_dir, info.size,
                                                 fault_archive)
        archive_file == DownloadedPath(a)
        h == download_product_release_os_hash(a, info.checksum_link, os_dir,
                                              archive_file, fault_hash)
    IN  IF a.err # "none" THEN a
        ELSE IF h.err # "none" THEN h
        ELSE [h EXCEPT !.os_releases =
                 (id_os :> [archive |-> relative_posix(archive_file),
                            hash |-> relative_posix(DownloadedPath(h))]) @@ @]

\* one iteration of the loop of download_product_release; getattr(downloads,
\* id_os) raises on an attribute the model class lacks and is None (<<>>)
\* for a platform the release lacks
download_product_release_step(d, id_os, fault_archive, fault_hash) ==
    IF id_os \notin DOMAIN d.release.downloads THEN Raise(d, "AppError")
    ELSE LET info == d.release.downloads[id_os]
         IN  IF info = <<>>
             THEN Raise([d EXCEPT !.known_files = @ \cup {products_dir \o <<id_os>>}],
                        "AttributeError")
             ELSE download_product_release_os(d, info[1], id_os, fault_archive,
                                              fault_hash)

(***************************************************************************)
(* run: the plugins of one product, the two reports, the unknown files.    *)
(***************************************************************************)
\* the updates that came without since or without until: get_build_tuple
\* is given None for them
Boundless(updates) ==
    {k \in 1..Len(updates) : updates[k].since = None \/ updates[k].until = None}

\* find_compatible_plugin_update reaches an update without since or until,
\* having found none compatible before it
ReachesBoundless(updates, product_tuple) ==
    /\ Boundless(updates) # {}
    /\ LET k == CHOOSE i \in Boundless(updates) : \A j \in Boundless(updates) : i <= j
       IN  FirstCompatible(SubSeq(updates, 1, k - 1), product_tuple, 1) = 0

\* App.download_plugin: the entry of plugin_files for one plugin
download_plugin(d, plugin_id, product_build, fault) ==
    LET updates == d.plugins_updates[plugin_id]
        compatible == FirstCompatible(updates, get_build_tuple(product_build), 1)
        f == download_file(d, PluginDownloadUrl(updates[compatible].id), plugins_dir,
                           fault)
    IN  IF ReachesBoundless(updates, get_build_tuple(product_build))
        THEN Raise(d, "AttributeError")
        ELSE IF compatible = 0
        THEN [d EXCEPT !.plugin_files = (plugin_id :> None) @@ @]
        ELSE IF DownloadFailed(f) THEN Raise(f, "AppError")
        ELSE [f EXCEPT !.known_files = @ \cup {DownloadedPath(f)},
                       !.plugin_files =
                           (plugin_id :> relative_posix(DownloadedPath(f))) @@ @]

RECURSIVE DownloadPluginsFrom(_, _, _, _)
DownloadPluginsFrom(d, product_build, fault, k) ==
    IF d.err # "none" \/ k > Len(d.config.plugins) THEN d
    ELSE DownloadPluginsFrom(
             download_plugin(d, d.config.plugins[k], product_build, fault),
             product_build, fault, k + 1)

download_plugins(d, product_build, fault) ==
    DownloadPluginsFrom([d EXCEPT !.plugin_files = <<>>], product_build, fault, 1)

\* ProductsIndex.write and UrlTracker.write_tracked_url open a file of the
\* metadata directory for writing: OSError, hence AppError, without the directory
manage_metadata_unregistered(d) ==
    LET file == metadata_dir \o <<"index.json">>
    IN  IF metadata_dir \notin d.dirs THEN Raise(d, "AppError")
        ELSE [d EXCEPT !.files = WriteFile(@, file, "index"),
                       !.index_json = d.products_index]

manage_metadata(d) ==
    LET file == metadata_dir \o <<"index.json">>
    IN  IF metadata_dir \notin d.dirs THEN Raise(d, "AppError")
        ELSE [d EXCEPT !.files = WriteFile(@, file, "index"),
                       !.index_json = d.products_index,
                       !.known_files = @ \cup {file}]

\* sort_tracked_items turns each set into its sorted list: one list per set
manage_url_tracker(d) ==
    LET file == metadata_dir \o <<"url.json">>
    IN  IF metadata_dir \notin d.dirs THEN Raise(d, "AppError")
        ELSE [d EXCEPT !.files = WriteFile(@, file, "urls"),
                       !.url_json = d.url_tracker, !.url_writes = @ + 1,
                       !.known_files = @ \cup {file}]

RECURSIVE clean_unknown_files(_, _, _)
clean_unknown_files(d, unknown_files, k) ==
    IF k > Len(unknown_files) THEN d
    ELSE clean_unknown_files(clean_unknown_file(d, unknown_files[k]),
                             unknown_files, k + 1)

manage_unknown_files(d) ==
    LET unknown_files == get_unknown_files(d.dirs, d.files, artefacts_dir,
                                           d.known_files)
    IN  IF Len(unknown_files) > 0 /\ d.clean_unknown
        THEN clean_unknown_files(d, unknown_files, 1)
        ELSE d

(***************************************************************************)
(* run: one configuration, one remote and one disk per behaviour, and the  *)
(* program started MaxRuns times on them.                                  *)
(***************************************************************************)
MaxRuns == 2

ProductId == "IU"

PluginId == "7"

ArchiveUrl == [host |-> "download.jetbrains.com", path |-> <<"idea", "ide.tar.gz">>]

ChecksumUrl ==
    [host |-> "download.jetbrains.com", path |-> <<"idea", "ide.tar.gz.sha256">>]

PluginFileUrl ==
    [host |-> "downloads.marketplace.jetbrains.com", path |-> <<"files", "plugin.zip">>]

MirrorUrl == [host |-> "mirror.jetbrains.com", path |-> <<"products", ProductId>>]

DownloadInfo == [link |-> ArchiveUrl, size |-> 2, checksum_link |-> ChecksumUrl]

\* the releases of the product: linux always there, windows there or missing
RunRelease(version, build, windows) ==
    [version |-> version, build |-> build,
     downloads |-> [linux |-> <<DownloadInfo>>, windows |-> windows]]

\* version v1 is listed twice, after the latest release
RunReleases(windows) ==
    << RunRelease(<<"v", "2">>, Str_1_10_0, windows),
       RunRelease(<<"v", "1">>, Str_10_0, windows),
       RunRelease(<<"v", "1">>, <<"0">>, windows) >>

RunUpdate(id, until) == [id |-> id, cdate |-> 1, since |-> <<>>, until |-> until]

\* an update whose payload has no since field
RunUpdateNoSince(id, until) == [RunUpdate(id, until) EXCEPT !.since = None]

Str_0_star == <<"0", ".", "*">>

Str_1_dot_dot_0 == <<"1", ".", ".", "0">>

RunUpdateLists ==
    { << RunUpdate("u1", Str_1_star) >>,
      << RunUpdate("u1", Str_10_0), RunUpdate("u2", Str_1_star) >>,
      << RunUpdate("u1", Str_0_star) >>,
      << RunUpdateNoSince("u1", Str_0_star) >>,
      << RunUpdate("u1", Str_1_dot_dot_0) >> }

RunPayloads(windows, updates) ==
    ProductsUrl(ProductId) :>
        [kind |-> "list",
         items |-> << [code |-> ProductId, releases |-> RunReleases(windows)] >>]
    @@ PluginUrl(PluginId) :> [kind |-> "dict", id |-> PluginId]
    @@ UpdatesUrl(PluginId, "0") :> [kind |-> "list", items |-> updates]

\* what the command line and config.yaml can ask for
RunConfigs ==
    { [products |-> << [id |-> ProductId, version |-> v, os |-> o] >>,
       plugins |-> << PluginId >>] :
         v \in {None, <<"v", "1">>, <<"v", "9">>}, o \in {<<"linux">>, <<"linux", "windows">>, <<"mac">>} }

LinuxArchive == products_dir \o <<"linux", "ide.tar.gz">>

LinuxHash == products_dir \o <<"linux", "ide.tar.gz.sha256">>

OldPlugin == plugins_dir \o <<"old.zip">>

\* what earlier runs and the user can have left under the destination
RunDisks ==
    { [dirs |-> {<<>>}, files |-> <<>>],
      [dirs |-> Prefixes(products_dir \o <<"linux">>),
       files |-> LinuxArchive :> "short" @@ LinuxHash :> "sum-good"],
      [dirs |-> Prefixes(products_dir \o <<"linux">>),
       files |-> LinuxArchive :> "corrupt" @@ LinuxHash :> "sum-good"],
      [dirs |-> Prefixes(plugins_dir), files |-> OldPlugin :> "zip"],
      [dirs |-> Prefixes(products_dir \o <<"linux">>),
       files |-> LinuxHash :> "sum-wrong"] }

RunInit ==
    /\ pag = PagIdle
    /\ api = ApiIdle
    /\ cmp = CmpIdle
    /\ sel = SelIdle
    /\ dl = DlIdle
    /\ rec = RecIdle
    /\ \E cache_api \in BOOLEAN, clean_unknown \in BOOLEAN, moved \in BOOLEAN,
          config \in RunConfigs, disk \in RunDisks,
          archive \in {"good", "short", "corrupt"},
          checksum \in {"sum-good", "sum-wrong", "sum-empty"},
          windows \in {<<>>, <<DownloadInfo>>}, updates \in RunUpdateLists :
          run = [RunIdle EXCEPT
                   !.cache_api = cache_api, !.clean_unknown = clean_unknown,
                   !.config = config,
                   !.redirects =
                       (PluginDownloadUrl("u1") :> PluginFileUrl)
                       @@ (PluginDownloadUrl("u2") :> PluginFileUrl)
                       @@ (IF moved THEN ProductsUrl(ProductId) :> MirrorUrl
                           ELSE <<>>),
                   !.bodies = ArchiveUrl :> archive @@ ChecksumUrl :> checksum
                              @@ PluginFileUrl :> "zip",
                   !.payloads = RunPayloads(windows, updates),
                   !.dirs = disk.dirs, !.files = disk.files]

\* the end of a step of App.main: an exception leaves main
Then(d, pc, where) ==
    IF d.err # "none" THEN [d EXCEPT !.pc = "raised", !.raised_in = where]
    ELSE [d EXCEPT !.pc = pc]

\* a new process: App() and App.reset(); fault is what the network does to
\* the JSON queries of this process
AppStart ==
    /\ run.pc \in {"idle", "exited"}
    /\ run.runs < MaxRuns
    /\ \E fault \in {"none", "send"} :
          run' = [run EXCEPT
                    !.pc = "plugins", !.runs = @ + 1, !.fault = fault,
                    !.url_writes = 0,
                    !.known_files = {artefacts_dir, products_dir, plugins_dir,
                                     metadata_dir},
                    !.products_index = <<>>, !.url_tracker = EmptyTracker,
                    !.plugins = <<>>, !.plugins_updates = <<>>,
                    !.plugin_files = <<>>, !.pi = 1, !.oi = 1,
                    !.release = <<>>, !.os_releases = <<>>, !.data = NoData,
                    !.failed = {}, !.err = "none", !.raised_in = "none",
                    !.exit_status = "none",
                    !.seen = [archive |-> "none", hash |-> "none"],
                    !.sent = 0, !.streamed = 0, !.hist = <<>>]
    /\ UNCHANGED othersRun

LoadConfiguredPluginsInformation ==
    /\ run.pc = "plugins"
    /\ run' = Then(load_configured_plugins_information(run), "products", "plugins")
    /\ UNCHANGED othersRun

\* process_configured_products: the loop is over, or the next product starts
ProcessConfiguredProducts ==
    /\ run.pc = "products"
    /\ run' = IF run.pi > Len(run.config.products)
              THEN [run EXCEPT !.pc = "metadata"]
              ELSE Then(download_product(run, run.config.products[run.pi]),
                        "release", "product")
    /\ UNCHANGED othersRun

\* download_product_release: one platform of the configured list
DownloadProductReleaseOs ==
    /\ run.pc = "release"
    /\ run.oi <= Len(run.config.products[run.pi].os)
    /\ \E fault_archive \in {"none", "send", "copy"}, fault_hash \in {"none", "copy"} :
          LET d == download_product_release_step(
                       run, run.config.products[run.pi].os[run.oi],
                       fault_archive, fault_hash)
          IN  run' = Then([d EXCEPT !.oi = IF d.err = "none" THEN @ + 1 ELSE @],
                          "release", "os")
    /\ UNCHANGED othersRun

\* process_configured_product, once download_product has returned
DownloadPlugins ==
    /\ run.pc = "release"
    /\ run.oi > Len(run.config.products[run.pi].os)
    /\ \E fault \in {"none", "send"} :
          LET d == download_plugins(run, run.release.build, fault)
              info == [archives |-> d.os_releases, plugins |-> d.plugin_files]
          IN  run' = Then([d EXCEPT
                             !.products_index =
                                 IF d.err = "none"
                                 THEN (run.config.products[run.pi].id :> info) @@ @
                                 ELSE @,
                             !.pi = IF d.err = "none" THEN @ + 1 ELSE @],
                          "products", "plugin")
    /\ UNCHANGED othersRun

ManageMetadata ==
    /\ run.pc = "metadata"
    /\ run' = Then(manage_metadata(run), "url_tracker", "metadata")
    /\ UNCHANGED othersRun

ManageUrlTracker ==
    /\ run.pc = "url_tracker"
    /\ run' = Then(manage_url_tracker(run), "unknown_files", "url_tracker")
    /\ UNCHANGED othersRun

ManageUnknownFiles ==
    /\ run.pc = "unknown_files"
    /\ run' = Then(manage_unknown_files(run), "finished", "unknown_files")
    /\ UNCHANGED othersRun

\* the module-level main: an AppError is logged and main returns, any other
\* exception leaves it and the interpreter exits with status 1
main ==
    /\ run.pc \in {"finished", "raised"}
    /\ LET status == IF run.pc = "raised" /\ run.err # "AppError" THEN "1" ELSE "0"
       IN  run' = [run EXCEPT
                     !.pc = "exited", !.exit_status = status,
                     !.out = Append(@, [exit_status |-> status, err |-> run.err,
                                        logged |-> run.err = "AppError",
                                        seen |-> run.seen,
                                        index_json |-> run.index_json,
                                        url_json |-> run.url_json])]
    /\ UNCHANGED othersRun

NextRun ==
    \/ AppStart
    \/ LoadConfiguredPluginsInformation
    \/ ProcessConfiguredProducts
    \/ DownloadProductReleaseOs
    \/ DownloadPlugins
    \/ ManageMetadata
    \/ ManageUrlTracker
    \/ ManageUnknownFiles
    \/ main

SpecRun == RunInit /\ [][NextRun]_vars

\* the entries of the list that clean_unknown_files has been through
RecAttempted == {rec.unknown_files[k] : k \in 1..(rec.i - 1)}

\* C17: clean_unknown_files is best-effort: an entry that cannot be removed
\* is logged and stays, the entries after it in the list are still attempted,
\* each being removed or logged in its turn, and the pass ends normally.
C17_CleanIsBestEffort ==
    /\ rec.pc \in {"clean", "done"} =>
          /\ \A e \in RecAttempted :
                IF e \in rec.failed THEN Exists(rec.dirs, rec.files, e)
                ELSE ~Exists(rec.dirs, rec.files, e)
          /\ rec.failed \subseteq RecAttempted
          /\ rec.denied \cap RecAttempted \subseteq rec.failed
    /\ rec.pc = "done" => rec.i = Len(rec.unknown_files) + 1

\* a refused removal early in the list, and a later entry removed all the same
C17_LaterEntryStillRemoved ==
    /\ rec.pc = "done"
    /\ \E j, k \in 1..Len(rec.unknown_files) :
          /\ j < k
          /\ rec.unknown_files[j] \in rec.failed
          /\ ~Exists(rec.dirs, rec.files, rec.unknown_files[k])

(***************************************************************************)
(* Claims on the whole program.                                            *)
(***************************************************************************)
\* the archive the platform in progress is about
RunArchive ==
    products_dir \o <<run.config.products[run.pi].os[run.oi], basename(ArchiveUrl)>>

\* the size check of download_product_release_os_archive has read an archive
\* of another size than the declared one
SizeMismatch ==
    run.seen.archive # "none" /\ SizeOf(run.seen.archive) # DownloadInfo.size

\* the digest check of download_product_release_os_hash has read an archive
\* and a hash file that disagree
DigestMismatch ==
    /\ run.seen.hash # "none"
    /\ get_file_digest(run.seen.archive) # get_hash_file_digest(run.seen.hash)

RunFailedCleanly ==
    /\ run.pc \in {"raised", "exited"}
    /\ run.err = "AppError"
    /\ RunArchive \notin DOMAIN run.files
    /\ run.config.products[run.pi].id \notin DOMAIN run.products_index

\* C4 (as stated): when the archive at the target path, downloaded or already
\* there, has another size than the declared one or another digest than the
\* checksum file, the product fails with an error, no archive is left at the
\* target path, and the archive path is neither in known_files nor in the
\* manifest.
C4_MismatchForgetsArchive ==
    (SizeMismatch \/ DigestMismatch) =>
        RunFailedCleanly /\ RunArchive \notin run.known_files

\* C4 (amended): on a size or digest mismatch the product fails with AppError,
\* no archive is left at the target path and the product is not in the
\* manifest of the run; the archive path is out of known_files after a size
\* mismatch and still in known_files after a digest mismatch.
C4_MismatchRemovesArchive ==
    /\ SizeMismatch => RunFailedCleanly /\ RunArchive \notin run.known_files
    /\ DigestMismatch => RunFailedCleanly /\ RunArchive \in run.known_files

\* a run found on disk an archive of the right size and the wrong digest, and
\* has removed it
C4_StaleArchiveRejected ==
    /\ run.pc = "raised"
    /\ DigestMismatch
    /\ run.seen.archive = "corrupt"
    /\ run.hist[1].skipped
    /\ RunArchive \notin DOMAIN run.files

\* what the specification calls compatible: an absent bound bounds nothing
RunBounded(update) ==
    [update EXCEPT !.since = IF @ = None THEN <<>> ELSE @,
                   !.until = IF @ = None THEN <<>> ELSE @]

RunHasCompatible(plugin_id) ==
    \E k \in 1..Len(run.payloads[UpdatesUrl(plugin_id, "0")].items) :
        IsCompatible(RunBounded(run.payloads[UpdatesUrl(plugin_id, "0")].items[k]),
                     get_build_tuple(run.release.build))

RunConfiguredPlugins == {run.config.plugins[k] : k \in 1..Len(run.config.plugins)}

\* C13: a plugin without compatible update does not stop the product: the
\* plugin step fails on a failed download only, and the plugins map of each
\* product of the manifest has one entry per configured plugin, None iff the
\* plugin has no compatible update and the relative path of the package
\* otherwise.
C13_IncompatiblePluginNotFatal ==
    /\ run.raised_in = "plugin" =>
          run.err = "AppError" /\ DownloadFailed(run)
    /\ \A p \in DOMAIN run.products_index :
          /\ DOMAIN run.products_index[p].plugins = RunConfiguredPlugins
          /\ \A q \in RunConfiguredPlugins :
                IF RunHasCompatible(q)
                THEN run.products_index[p].plugins[q] =
                         relative_posix(plugins_dir \o <<basename(PluginFileUrl)>>)
                ELSE run.products_index[p].plugins[q] = None

\* C14: every fatal error of the taxonomy (malformed since or until,
\* unrecognized answer, release not found, size or digest mismatch, failure
\* to read or compute a digest, failed download, failed report write)
\* leaves App.main as AppError.
C14_FatalErrorsAreAppError ==
    /\ (run.raised_in \in {"plugins", "product"} /\ run.fault = "none")
          => run.err = "AppError"
    /\ (SizeMismatch \/ DigestMismatch) => run.err = "AppError"
    /\ (run.raised_in \in {"os", "plugin"} /\ run.hist # <<>> /\ DownloadFailed(run))
          => run.err = "AppError"
    /\ (run.raised_in = "os" /\ run.hist # <<>> /\ ~DownloadFailed(run)
          /\ DownloadedPath(run) \in DOMAIN run.files
          /\ run.files[DownloadedPath(run)] = "sum-empty")
          => run.err = "AppError"
    /\ run.raised_in \in {"metadata", "url_tracker"} => run.err = "AppError"

\* C16: each run writes the URL-tracking report exactly once, whether or not
\* one of its fetches, downloads or verifications failed: a process that has
\* ended has written what its tracker had recorded.
C16_ReportWrittenOncePerRun ==
    run.pc = "exited" =>
        run.url_writes = 1 /\ run.url_json = run.url_tracker

\* the platform that download_product_release is at
RunOs == run.config.products[run.pi].os[run.oi]

\* the release has no download for the platform: the key is none of the
\* fields of JBProductReleaseDownload, or the field is None
RunOsLookupFails ==
    /\ run.raised_in = "os"
    /\ \/ RunOs \notin DOMAIN run.release.downloads
       \/ run.release.downloads[RunOs] = <<>>

\* C19: the lookup of the download of a release for a configured platform
\* fails with AppError when the key is unknown and when the release has no
\* download for it, never with an attribute fault; no download is attempted
\* and nothing enters known_files for that platform.
C19_MissingOsIsAppError ==
    RunOsLookupFails =>
        /\ run.err = "AppError"
        /\ products_dir \o <<RunOs>> \notin run.known_files
        /\ \A k \in 1..Len(run.hist) :
              run.hist[k].directory # products_dir \o <<RunOs>>

RunReleaseList == run.payloads[ProductsUrl(run.config.products[1].id)].items[1].releases

RunVersion == run.config.products[1].version

RunVersionMatches ==
    {k \in 1..Len(RunReleaseList) : RunReleaseList[k].version = RunVersion}

\* C20: the release of a product is the first of the list whose version is
\* the configured one, or the first of the list when no version is
\* configured; a configured version that no release has fails the product
\* with AppError, nothing being downloaded for it.
C20_ReleaseResolvedInListOrder ==
    /\ run.pc = "release" =>
          IF RunVersion = None THEN run.release = RunReleaseList[1]
          ELSE /\ RunVersionMatches # {}
               /\ run.release = RunReleaseList[
                      CHOOSE k \in RunVersionMatches : \A j \in RunVersionMatches : k <= j]
    /\ (run.raised_in = "product" /\ run.err = "AppError") =>
          RunVersion # None /\ RunVersionMatches = {}
    /\ (run.pc # "idle" /\ RunVersion # None /\ RunVersionMatches = {}) =>
          /\ run.hist = <<>> /\ run.streamed = 0
          /\ run.products_index = <<>>
          /\ run.pc \in {"plugins", "products", "raised", "exited"}

\* the configured version is that of the second and third releases, and the
\* second has been taken
C20_FirstOfTwoMatchesTaken ==
    /\ run.pc = "release"
    /\ RunVersionMatches = {2, 3}
    /\ run.release = RunReleaseList[2]
    /\ run.release # RunReleaseList[3]

\* the size or the digest check of run k has failed
RunMismatched(k) ==
    \/ /\ run.out[k].seen.archive # "none"
       /\ SizeOf(run.out[k].seen.archive) # DownloadInfo.size
    \/ /\ run.out[k].seen.hash # "none"
       /\ get_file_digest(run.out[k].seen.archive)
             # get_hash_file_digest(run.out[k].seen.hash)

RunRemoteCorrect ==
    run.bodies[ArchiveUrl] = "good" /\ run.bodies[ChecksumUrl] = "sum-good"

\* C21: a run that fails on a size or digest mismatch, the archive or the
\* checksum file on disk being partial or corrupt, leaves no file that the
\* next run reuses unverified: with a remote that serves the right archive
\* and checksum, the next run meets no mismatch.
C21_NextRunRecoversFromMismatch ==
    RunRemoteCorrect =>
        \A k \in 1..(Len(run.out) - 1) :
            RunMismatched(k) => ~RunMismatched(k + 1)

\* the paths that the manifest of the running pass refers to
RunManifestPaths ==
    UNION { UNION { {Destination \o run.products_index[p].archives[o].archive,
                     Destination \o run.products_index[p].archives[o].hash} :
                       o \in DOMAIN run.products_index[p].archives }
            \cup { Destination \o run.products_index[p].plugins[q] :
                     q \in { x \in DOMAIN run.products_index[p].plugins :
                               run.products_index[p].plugins[x] # None } } :
              p \in DOMAIN run.products_index }

RunReports == {metadata_dir \o <<"index.json">>, metadata_dir \o <<"url.json">>}

RunBaseline == {artefacts_dir, products_dir, plugins_dir, metadata_dir}

RunListed ==
    get_unknown_files(run.dirs, run.files, artefacts_dir, run.known_files)

RunInPass == run.pc \notin {"idle", "raised", "exited"}

\* known_files only grows within a pass, and reconciliation removes nothing
\* that is in it
RunKnownKept ==
    /\ RunInPass /\ run'.pc \notin {"exited", "plugins"} =>
          run.known_files \subseteq run'.known_files
    /\ run.pc = "unknown_files" =>
          \A f \in run.known_files :
              Exists(run.dirs, run.files, f) => Exists(run'.dirs, run'.files, f)

\* C22: after a successful run, with or without --clean-unknown, every path
\* of the manifest, the two report files and the baseline directories exist
\* on disk and are in known_files; known_files only grows between the reset
\* and reconciliation, so none of these paths is listed as unknown or deleted.
C22_ManifestPathsExistAndKnown ==
    /\ [](run.pc = "unknown_files" =>
            \A k \in 1..Len(RunListed) :
                RunListed[k] \notin RunManifestPaths \cup RunReports \cup RunBaseline)
    /\ [](run.pc = "finished" =>
            \A f \in RunManifestPaths \cup RunReports \cup RunBaseline :
                Exists(run.dirs, run.files, f) /\ f \in run.known_files)
    /\ [][RunKnownKept]_vars

\* C22: after a successful run, with or without --clean-unknown, every path
\* of the manifest and the two report files exist on disk, with their parent
\* directories, and are in known_files; the baseline directories are in
\* known_files, on disk or not; known_files only grows within a pass, no path
\* of these is listed as unknown and reconciliation removes no known path.
C22_ManifestPathsKeptByReconciliation ==
    /\ [](run.pc = "unknown_files" =>
            \A k \in 1..Len(RunListed) :
                RunListed[k] \notin RunManifestPaths \cup RunReports \cup RunBaseline)
    /\ [](run.pc = "finished" =>
            /\ RunBaseline \subseteq run.known_files
            /\ \A f \in RunManifestPaths \cup RunReports :
                  /\ Exists(run.dirs, run.files, f) /\ f \in run.known_files
                  /\ \A g \in Prefixes(f) :
                        IsUnder(Destination, g) /\ g # f => g \in run.dirs)
    /\ [][RunKnownKept]_vars

\* a pass with --clean-unknown has ended: the orphan of the plugins directory
\* is gone, the archive and the reports are there, no plugin was stored
C22_ManifestKeptWhileOrphanRemoved ==
    /\ run.pc = "finished" /\ run.clean_unknown
    /\ RunManifestPaths # {}
    /\ \A p \in DOMAIN run.products_index :
          run.products_index[p].plugins[PluginId] = None
    /\ plugins_dir \in run.dirs
    /\ OldPlugin \notin DOMAIN run.files

RunCompleted(k) == k \in 1..Len(run.out) /\ run.out[k].err = "none"

\* C5: two runs in a row of the whole program on the same remote and the same
\* configuration, with or without --cache-api, redirects included, write the
\* same manifest and the same URL-tracking file.
C5_RerunWritesSameReports ==
    (RunCompleted(1) /\ RunCompleted(2)) =>
        /\ run.out[1].index_json = run.out[2].index_json
        /\ run.out[1].url_json = run.out[2].url_json

\* C6: a process in which an error was raised ends with a failure status, and
\* a process ends with the success status only when its run completed
\* without error.
C6_ErrorExitsWithFailure ==
    run.pc = "exited" => (run.exit_status = "0" <=> run.err = "none")


(***************************************************************************)
(* api: one JetBrainsApi after another on the same cache directory, each   *)
(* answering a sequence of JSON queries.                                   *)
(***************************************************************************)
MaxQueries == 3

ApiUrls == {ProductsUrl(ProductId), PluginUrl(PluginId), UpdatesUrl(PluginId, "0")}

ApiPayloads == RunPayloads(<<>>, << RunUpdate("u1", Str_1_star) >>)

ApiInit ==
    /\ pag = PagIdle
    /\ cmp = CmpIdle
    /\ sel = SelIdle
    /\ dl = DlIdle
    /\ rec = RecIdle
    /\ run = RunIdle
    /\ \E cache_api \in BOOLEAN, moved \in BOOLEAN, stored \in SUBSET {PluginUrl(PluginId)} :
          api = [ApiIdle EXCEPT
                   !.pc = "ready", !.runs = 1, !.cache_api = cache_api,
                   !.redirects = IF moved THEN ProductsUrl(ProductId) :> MirrorUrl
                                 ELSE <<>>,
                   !.payloads = ApiPayloads,
                   !.cache = IF cache_api
                             THEN [u \in stored |-> ApiPayloads[u]]
                             ELSE <<>>]

\* one call of do_cached_query; an exception ends the process
DoCachedQuery ==
    /\ api.pc = "ready"
    /\ Len(api.log) < MaxQueries
    /\ \E url \in ApiUrls, fault \in {"none", "send", "json"} :
          LET d == do_cached_query([api EXCEPT !.fault = fault], url)
              entry == [url |-> url, run |-> api.runs, hit |-> cache_has(api, url),
                        net |-> d.sent - api.sent, err |-> d.err, data |-> d.data,
                        tracker_before |-> api.url_tracker,
                        tracker_after |-> d.url_tracker,
                        cache_before |-> api.cache, cache_after |-> d.cache]
          IN  api' = [d EXCEPT !.log = Append(@, entry),
                               !.pc = IF d.err = "none" THEN "ready" ELSE "raised"]
    /\ UNCHANGED othersApi

\* UrlTracker.write_tracked_url, at the end of a process that raised nothing
WriteTrackedUrl ==
    /\ api.pc = "ready"
    /\ api' = [api EXCEPT !.pc = "written", !.report = api.url_tracker]
    /\ UNCHANGED othersApi

\* the next process: a new UrlTracker and a new Session, the cache directory
\* as the last process left it
ApiRestart ==
    /\ api.pc \in {"written", "raised"}
    /\ api.runs < MaxRuns
    /\ api' = [api EXCEPT !.pc = "ready", !.runs = @ + 1,
                          !.url_tracker = EmptyTracker, !.data = NoData,
                          !.fault = "none", !.err = "none", !.sent = 0]
    /\ UNCHANGED othersApi

NextApi == DoCachedQuery \/ WriteTrackedUrl \/ ApiRestart

SpecApi == ApiInit /\ [][NextApi]_vars

(***************************************************************************)
(* Claims on the cached queries.                                           *)
(***************************************************************************)
ApiHitOk(e) ==
    /\ e.net = 0
    /\ e.err = "none"
    /\ e.data = e.cache_before[e.url]
    /\ e.cache_after = e.cache_before
    /\ e.tracker_after.request_url = e.tracker_before.request_url \cup {e.url}
    /\ e.tracker_after.response_url = e.tracker_before.response_url
    /\ e.tracker_after.response_hostname = e.tracker_before.response_hostname

ApiMissOk(e) ==
    /\ e.net = 1
    /\ e.data = api.payloads[e.url]
    /\ e.url \in e.tracker_after.request_url
    /\ Effective(api, e.url) \in
           e.tracker_after.response_url \cup e.tracker_after.request_url
    /\ Effective(api, e.url).host \in
           e.tracker_after.response_hostname \cup e.tracker_after.request_hostname
    /\ e.cache_after = IF api.cache_api
                       THEN (e.url :> e.data) @@ e.cache_before
                       ELSE <<>>

\* C12 (as stated): a hit sends nothing and records the request URL only, a
\* miss sends the request, records both URLs and stores the payload; with the
\* durable cache each request URL reaches the network at most once over all
\* queries and runs, with the no-op cache every query reaches the network and
\* nothing is stored.
C12_EachUrlSentAtMostOnce ==
    /\ \A k \in 1..Len(api.log) :
          /\ api.log[k].hit => ApiHitOk(api.log[k])
          /\ (~api.log[k].hit /\ api.log[k].err = "none") => ApiMissOk(api.log[k])
    /\ api.cache_api =>
          \A u \in ApiUrls :
             Cardinality({k \in 1..Len(api.log) :
                             api.log[k].url = u /\ api.log[k].net = 1}) <= 1
    /\ ~api.cache_api =>
          \A k \in 1..Len(api.log) : api.log[k].net = 1 /\ api.log[k].cache_after = <<>>

\* C12 (amended): the same, except that with the durable cache a request URL
\* reaches the network again after a query of it that failed; once a query
\* of it has returned, no later query of it in any run reaches the network.
C12_AnsweredUrlNeverSentAgain ==
    /\ \A k \in 1..Len(api.log) :
          /\ api.log[k].hit => ApiHitOk(api.log[k])
          /\ (~api.log[k].hit /\ api.log[k].err = "none") => ApiMissOk(api.log[k])
    /\ api.cache_api =>
          \A i, j \in 1..Len(api.log) :
             (i < j /\ api.log[i].url = api.log[j].url /\ api.log[i].err = "none")
                 => api.log[j].hit /\ api.log[j].net = 0
    /\ ~api.cache_api =>
          \A k \in 1..Len(api.log) : api.log[k].net = 1 /\ api.log[k].cache_after = <<>>

\* a query answered by the network in one process and by the cache in the next
C12_MissThenHitAcrossRuns ==
    /\ Len(api.log) >= 2
    /\ api.log[1].url = api.log[2].url
    /\ api.log[1].run < api.log[2].run
    /\ ~api.log[1].hit /\ api.log[1].net = 1
    /\ api.log[2].hit /\ api.log[2].net = 0


(***************************************************************************)
(* pag: get_plugin_updates_all of one plugin against a source that holds n *)
(* updates, or that answers every page with a full page.                   *)
(***************************************************************************)
PageSize == 2

MaxItems == 5

MaxPages == 4

PagItem(k) == [id |-> ToString(k), cdate |-> k, since |-> <<>>, until |-> Str_1_star]

\* the items the source answers for params {'page': page, 'size': PageSize}
PageItems(source, page) ==
    LET first == page * PageSize + 1
        last == IF source.kind = "endless" THEN (page + 1) * PageSize
                ELSE Min((page + 1) * PageSize, source.n)
    IN  [k \in 1..(IF last < first THEN 0 ELSE last - first + 1) |->
            PagItem(first + k - 1)]

PagPayloads(source) ==
    [u \in {UpdatesUrl(PluginId, ToString(q)) : q \in 0..MaxPages} |->
        LET page == CHOOSE q \in 0..MaxPages : UpdatesUrl(PluginId, ToString(q)) = u
        IN  [kind |-> "list", items |-> PageItems(source, page)]]

PagSources ==
    {[kind |-> "finite", n |-> n] : n \in 0..MaxItems} \cup {[kind |-> "endless", n |-> 0]}

PagInit ==
    /\ cmp = CmpIdle
    /\ sel = SelIdle
    /\ dl = DlIdle
    /\ rec = RecIdle
    /\ run = RunIdle
    /\ api = ApiIdle
    /\ \E source \in PagSources, cache_api \in BOOLEAN,
          stored \in SUBSET {UpdatesUrl(PluginId, "0")} :
          /\ cache_api \/ stored = {}
          /\ pag = [PagIdle EXCEPT
                      !.pc = "loop", !.source = source, !.cache_api = cache_api,
                      !.payloads = PagPayloads(source),
                      !.cache = [u \in stored |-> PagPayloads(source)[u]]]

get_plugin_updates(d, plugin_id, page) ==
    LET q == do_cached_query(d, UpdatesUrl(plugin_id, ToString(page)))
    IN  IF q.err # "none" THEN q
        ELSE IF q.data.kind # "list" THEN Raise(q, "AppError")
        ELSE IF \E k \in 1..Len(q.data.items) :
                   ~(is_valid(q.data.items[k].since) /\ is_valid(q.data.items[k].until))
        THEN Raise(q, "ValidationError")
        ELSE q

is_last_page_when_empty(items, page_size) == Len(items) = 0

is_last_page(items, page_size) == Len(items) < page_size

\* one turn of the while loop of get_plugin_updates_all
GetPluginUpdatesAll ==
    /\ pag.pc = "loop"
    /\ pag.page < MaxPages
    /\ \E fault \in {"none", "send", "json"} :
          LET q == get_plugin_updates([pag EXCEPT !.fault = fault], PluginId, pag.page)
              items == q.data.items
          IN  pag' = IF q.err # "none" THEN [q EXCEPT !.pc = "raised"]
                     ELSE [q EXCEPT
                             !.updates = @ \o items,
                             !.requested = Append(@, pag.page),
                             !.sizes = Append(@, Len(items)),
                             !.pc = IF is_last_page(items, PageSize) THEN "done"
                                    ELSE "loop",
                             !.page = IF is_last_page(items, PageSize) THEN @
                                      ELSE @ + 1]
    /\ UNCHANGED othersPag

NextPages == GetPluginUpdatesAll

SpecPages == PagInit /\ [][NextPages]_vars /\ WF_vars(NextPages)

(***************************************************************************)
(* Claims on the paging loop.                                              *)
(***************************************************************************)
PagInOrder ==
    /\ pag.requested = [k \in 1..Len(pag.requested) |-> k - 1]
    /\ pag.updates = [k \in 1..Len(pag.updates) |-> PagItem(k)]

PagShape ==
    /\ pag.pc = "loop" =>
          /\ PagInOrder
          /\ \A k \in 1..Len(pag.sizes) : pag.sizes[k] = PageSize
    /\ pag.pc = "done" =>
          /\ PagInOrder
          /\ pag.source.kind = "finite"
          /\ Len(pag.updates) = pag.source.n
          /\ \A k \in 1..(Len(pag.sizes) - 1) : pag.sizes[k] = PageSize
          /\ pag.sizes[Len(pag.sizes)] < PageSize

\* C15: get_plugin_updates_all requests the pages 0, 1, 2, ... in order, goes
\* on exactly while a page holds page_size items, stops after the first
\* shorter page, an empty one included, and returns the pages' items in the
\* order received; it ends iff the source comes to answer a short page.
C15_PagesUntilFirstShortPage ==
    /\ []PagShape
    /\ (pag.source.kind = "finite") ~> (pag.pc \in {"done", "raised"})

\* the loop has ended on an empty page that followed two full ones
C15_EndedOnEmptyPage ==
    /\ pag.pc = "done"
    /\ pag.sizes = <<PageSize, PageSize, 0>>
    /\ pag.requested = <<0, 1, 2>>

(***************************************************************************)
(* The three queries of JetBrainsApi over several processes that share the *)
(* cache directory, with a remote whose answers may have the wrong shape.  *)
(* The machine runs on the variable api.                                   *)
(***************************************************************************)
\* an answer that is JSON and not of the shape its query accepts: a list that
\* has not one item for the product, a list for the plugin, an object for
\* the updates
Misshaped(url) ==
    IF url = ProductsUrl(ProductId) THEN [kind |-> "list", items |-> <<>>]
    ELSE IF url = PluginUrl(PluginId) THEN [kind |-> "list", items |-> <<>>]
    ELSE [kind |-> "dict", id |-> PluginId]

ShapeRemotes ==
    { [u \in ApiUrls |-> IF u \in bad THEN Misshaped(u) ELSE ApiPayloads[u]] :
        bad \in SUBSET ApiUrls }

ShapeInit ==
    /\ pag = PagIdle
    /\ cmp = CmpIdle
    /\ sel = SelIdle
    /\ dl = DlIdle
    /\ rec = RecIdle
    /\ run = RunIdle
    /\ \E cache_api \in BOOLEAN, payloads \in ShapeRemotes :
          api = [pc |-> "ready", runs |-> 1, cache_api |-> cache_api,
                 redirects |-> <<>>, payloads |-> payloads, cache |-> <<>>,
                 url_tracker |-> EmptyTracker, data |-> NoData, fault |-> "none",
                 err |-> "none", sent |-> 0, log |-> <<>>,
                 plugins |-> <<>>, plugins_updates |-> <<>>]

\* what one query leaves in the log, and the end of the process on an exception
ShapeLogged(d, url) ==
    [d EXCEPT !.log = Append(@, [url |-> url, run |-> api.runs,
                                 hit |-> cache_has(api, url),
                                 net |-> d.sent - api.sent, err |-> d.err,
                                 payload |-> api.payloads[url],
                                 cache_after |-> d.cache]),
              !.pc = IF d.err = "none" THEN "ready" ELSE "raised"]

ApiGetProduct ==
    /\ api.pc = "ready"
    /\ Len(api.log) < MaxQueries
    /\ \E fault \in {"none", "send", "json"} :
          api' = ShapeLogged(get_product([api EXCEPT !.fault = fault], ProductId),
                             ProductsUrl(ProductId))
    /\ UNCHANGED othersApi

ApiGetPlugin ==
    /\ api.pc = "ready"
    /\ Len(api.log) < MaxQueries
    /\ \E fault \in {"none", "send", "json"} :
          api' = ShapeLogged(get_plugin([api EXCEPT !.fault = fault], PluginId),
                             PluginUrl(PluginId))
    /\ UNCHANGED othersApi

ApiGetPluginUpdates ==
    /\ api.pc = "ready"
    /\ Len(api.log) < MaxQueries
    /\ \E fault \in {"none", "send", "json"} :
          api' = ShapeLogged(
                     get_plugin_updates_all([api EXCEPT !.fault = fault], PluginId),
                     UpdatesUrl(PluginId, "0"))
    /\ UNCHANGED othersApi

\* the next process: new objects, the cache directory as it was left; the
\* remote may answer differently from now on
ShapeRestart ==
    /\ api.pc \in {"ready", "raised"}
    /\ api.runs < MaxRuns
    /\ \E payloads \in ShapeRemotes :
          api' = [api EXCEPT !.pc = "ready", !.runs = @ + 1,
                             !.payloads = payloads,
                             !.url_tracker = EmptyTracker, !.data = NoData,
                             !.fault = "none", !.err = "none", !.sent = 0,
                             !.plugins = <<>>, !.plugins_updates = <<>>]
    /\ UNCHANGED othersApi

NextShape == ApiGetProduct \/ ApiGetPlugin \/ ApiGetPluginUpdates \/ ShapeRestart

SpecShape == ShapeInit /\ [][NextShape]_vars

\* the query of entry k reached the network and its answer was rejected for
\* its shape
ShapeRejected(k) ==
    /\ api.log[k].net = 1
    /\ api.log[k].err = "AppError"

ShapeCacheKept ==
    \A u \in DOMAIN api.cache : u \in DOMAIN api'.cache /\ api'.cache[u] = api.cache[u]

\* C23: with the durable cache an answer of the network is stored before its
\* shape is checked: the rejected payload is in the cache under the request
\* URL when the query fails, no step of the program removes or replaces a
\* cache entry, and every later query of that URL, in any later run and
\* whatever the remote then answers, fails with the same error and sends
\* nothing.
C23_RejectedPayloadStaysCached ==
    /\ [](api.cache_api =>
            \A i \in 1..Len(api.log) :
                ShapeRejected(i) =>
                    /\ api.log[i].url \in DOMAIN api.log[i].cache_after
                    /\ api.log[i].cache_after[api.log[i].url] = api.log[i].payload
                    /\ \A j \in (i + 1)..Len(api.log) :
                          api.log[j].url = api.log[i].url =>
                              /\ api.log[j].hit
                              /\ api.log[j].net = 0
                              /\ api.log[j].err = "AppError")
    /\ [][ShapeCacheKept]_vars

\* a payload rejected in one run fails the next run from the cache, the
\* remote answering well by then
C23_RepairedRemoteStillRejected ==
    /\ api.cache_api
    /\ Len(api.log) >= 2
    /\ ShapeRejected(1)
    /\ api.log[2].url = api.log[1].url
    /\ api.log[2].run > api.log[1].run
    /\ api.log[2].err = "AppError" /\ api.log[2].net = 0
    /\ api.payloads = ApiPayloads

====
